---- MODULE Spec2Model ----
(***************************************************************************)
(* The Lynx application-layer codec: ApplicationSerializer (type           *)
(* inference, size computation, serialize, deserialize), the MetaData      *)
(* header, and the PhaData composite record; and the acquisition controls  *)
(* of the application's main window with its connect worker.               *)
(*                                                                         *)
(* A byte buffer is a sequence of bytes 0..255.  Python values are         *)
(* records [k |-> kind, v |-> payload]:                                    *)
(*   "none"      v = <<>>                                                  *)
(*   "bool"      v \in BOOLEAN                                             *)
(*   "int"       v = the integer in two's complement, 9 little-endian      *)
(*               bytes (wide enough for every struct format of the codec,  *)
(*               signed and unsigned 64-bit included)                      *)
(*   "float"     v = the IEEE-754 binary64 bit pattern, 8 little-endian    *)
(*               bytes (NaN is not among the modelled values)              *)
(*   "str"       v = the sequence of Unicode code points                   *)
(*   "datetime"  v = <<days, seconds, microseconds>> since                 *)
(*               1601-01-01T00:00:00, normalised like a timedelta          *)
(* A call that raises is a record [ok |-> FALSE, err |-> exception name].  *)
(***************************************************************************)
EXTENDS Integers, Sequences, FiniteSets, TLC

VARIABLES
    timezone,   \* time.timezone of the process, in seconds
    daylight,   \* time.daylight of the process, 0 or 1
    stream,     \* the caller's buffer: appended to by serialize, consumed by deserialize
    written,    \* the serialize calls that returned, in order
    decoded,    \* the deserialize calls that returned, in order
    raised,     \* the exception of the last call, "" when it returned
    pha,        \* a PhaData instance
    phaOut,     \* what PhaData.serializeData returned or raised
    phaIn,      \* what PhaData.deserializeData was given and returned or raised
    acq_running,  \* LynxNoveauMainWindow._acq_running
    actionStart,  \* ui.actionStart.isEnabled()
    actionStop,   \* ui.actionStop.isEnabled()
    acq_timer,    \* _acq_timer.isActive()
    config,       \* configWindow.get_config().get_dict(): "dict" or "None"
    workers,      \* the AsyncConnect workers started, each at its place in run
    signals       \* the workers' signals queued for the main thread, oldest first

codecVars == <<timezone, daylight, stream, written, decoded, raised, pha, phaOut, phaIn>>

appVars == <<acq_running, actionStart, actionStop, acq_timer, config, workers, signals>>

vars == <<timezone, daylight, stream, written, decoded, raised, pha, phaOut, phaIn,
          acq_running, actionStart, actionStop, acq_timer, config, workers, signals>>

\* the main window as constructed with a configuration file, nothing started
AppIdle ==
    /\ acq_running = FALSE
    /\ actionStart = TRUE
    /\ actionStop = FALSE
    /\ acq_timer = FALSE
    /\ config = "dict"
    /\ workers = <<>>
    /\ signals = <<>>

Raise(e) == [ok |-> FALSE, err |-> e]

Min(a, b) == IF a < b THEN a ELSE b

Max(a, b) == IF a < b THEN b ELSE a

RECURSIVE Pow2(_)
Pow2(n) == IF n = 0 THEN 1 ELSE 2 * Pow2(n - 1)

(***************************************************************************)
(* Python slicing s[lo:hi] of a buffer, negative indices counted from the  *)
(* end and both clamped to the buffer.                                     *)
(***************************************************************************)
PyIndex(s, i) == IF i < 0 THEN Max(Len(s) + i, 0) ELSE Min(i, Len(s))

Slice(s, lo, hi) == SubSeq(s, PyIndex(s, lo) + 1, PyIndex(s, hi))

SliceFrom(s, lo) == SubSeq(s, PyIndex(s, lo) + 1, Len(s))

(***************************************************************************)
(* struct: little-endian two's complement.                                 *)
(***************************************************************************)
RECURSIVE LE(_, _)
LE(n, w) == IF w = 0 THEN <<>> ELSE <<n % 256>> \o LE(n \div 256, w - 1)

Ext(b) == IF b >= 128 THEN 255 ELSE 0

PyNone == [k |-> "none", v |-> <<>>]

PyBool(b) == [k |-> "bool", v |-> b]

PyInt(n) == [k |-> "int", v |-> LE(n, 9)]

PyStr(s) == [k |-> "str", v |-> s]

PyDate(d, s, us) == [k |-> "datetime", v |-> <<d, s, us>>]

\* the integer a bool or int argument stands for (bool is a subclass of int)
AsWide(obj) == IF obj.k = "bool" THEN LE(IF obj.v THEN 1 ELSE 0, 9) ELSE obj.v

\* -2^(8w-1) <= n < 2^(8w-1)
FitsSigned(v, w) == \A i \in (w + 1)..9 : v[i] = Ext(v[w])

\* 0 <= n < 2^(8w)
FitsUnsigned(v, w) == \A i \in (w + 1)..9 : v[i] = 0

SignExtend(b) == b \o [i \in 1..(9 - Len(b)) |-> Ext(b[Len(b)])]

ZeroExtend(b) == b \o [i \in 1..(9 - Len(b)) |-> 0]

\* a signed 32-bit field as a number
Int32(b) == b[1] + 256 * b[2] + 65536 * b[3] + 16777216 * (b[4] - (IF b[4] >= 128 THEN 256 ELSE 0))

\* an unsigned 32-bit field as a number; values from 2^31 up are held as 2^31 - 1,
\* which no buffer of the model is long enough to tell apart
Uint32(b) == IF b[4] >= 128 THEN 2147483647 ELSE Int32(b)

(***************************************************************************)
(* IEEE-754: binary64 -> binary32 (struct.pack "<f"), round to nearest     *)
(* even, OverflowError when the rounded value is not finite; and           *)
(* binary32 -> binary64 (struct.unpack "<f"), exact.                       *)
(***************************************************************************)
DoubleSign(v) == v[8] \div 128

DoubleExp(v) == (v[8] % 128) * 16 + v[7] \div 16

\* the top 23 bits of the 52-bit fraction, and the 29 bits below them
DoubleHi(v) == (v[7] % 16) * 524288 + v[6] * 2048 + v[5] * 8 + v[4] \div 32

DoubleLo(v) == (v[4] % 32) * 16777216 + v[3] * 65536 + v[2] * 256 + v[1]

\* the 31 low bits of a binary32 (exponent and fraction) with the sign, as bytes
SingleBytes(sign, bits) ==
    <<bits % 256, (bits \div 256) % 256, (bits \div 65536) % 256,
      (bits \div 16777216) + 128 * sign>>

DoubleToSingle(v) ==
    LET e == DoubleExp(v)
        E == e - 1023
        hi == DoubleHi(v)
        lo == DoubleLo(v)
        up == IF lo > 268435456 \/ (lo = 268435456 /\ hi % 2 = 1) THEN 1 ELSE 0
        normal == (E + 127) * 8388608 + hi + up
        s == (0 - 126) - E
        full == 8388608 + hi
        q == full \div Pow2(s)
        r == full % Pow2(s)
        half == Pow2(s - 1)
        upS == IF r > half \/ (r = half /\ lo > 0) \/ (r = half /\ lo = 0 /\ q % 2 = 1)
               THEN 1 ELSE 0
    IN  IF e = 2047 THEN [ok |-> TRUE, b |-> SingleBytes(DoubleSign(v), 2139095040)]
        ELSE IF e = 0 THEN [ok |-> TRUE, b |-> SingleBytes(DoubleSign(v), 0)]
        ELSE IF E >= 0 - 126
             THEN IF E > 127 \/ normal >= 2139095040 THEN Raise("OverflowError")
                  ELSE [ok |-> TRUE, b |-> SingleBytes(DoubleSign(v), normal)]
        ELSE IF s > 24 THEN [ok |-> TRUE, b |-> SingleBytes(DoubleSign(v), 0)]
        ELSE [ok |-> TRUE, b |-> SingleBytes(DoubleSign(v), q + upS)]

\* a double's bytes from its sign, biased exponent and the top 23 fraction bits
DoubleBytes(sign, e, hi) ==
    <<0, 0, 0, (hi % 8) * 32, (hi \div 8) % 256, (hi \div 2048) % 256,
      (e % 16) * 16 + hi \div 524288, sign * 128 + e \div 16>>

RECURSIVE Normalise(_, _)
\* shift a subnormal binary32 fraction up until bit 23 is set: <<fraction, shifts>>
Normalise(m, k) == IF m >= 8388608 THEN <<m, k>> ELSE Normalise(2 * m, k + 1)

SingleToDouble(b) ==
    LET sign == b[4] \div 128
        e == (b[4] % 128) * 2 + b[3] \div 128
        m == (b[3] % 128) * 65536 + b[2] * 256 + b[1]
        n == Normalise(m, 0)
    IN  IF e = 255 THEN DoubleBytes(sign, 2047, m)
        ELSE IF e = 0 /\ m = 0 THEN DoubleBytes(sign, 0, 0)
        ELSE IF e = 0 THEN DoubleBytes(sign, 1023 - 126 - n[2], n[1] - 8388608)
        ELSE DoubleBytes(sign, e - 127 + 1023, m)

PyFloat(bits) == [k |-> "float", v |-> bits]

PyOther == [k |-> "list", v |-> <<>>]

(***************************************************************************)
(* str.encode('utf_16_le') and bytes.decode('utf-16').  The decoder takes  *)
(* a leading FF FE or FE FF as a byte-order mark: it drops it and reads    *)
(* the rest little- or big-endian; without one it reads in the host's      *)
(* order, little-endian on the hosts the application runs on.              *)
(***************************************************************************)
IsSurrogate(c) == c >= 55296 /\ c <= 57343

IsHighSurrogate(c) == c >= 55296 /\ c <= 56319

IsLowSurrogate(c) == c >= 56320 /\ c <= 57343

Utf16Units(c) ==
    IF c < 65536 THEN <<c % 256, c \div 256>>
    ELSE LET hi == 55296 + (c - 65536) \div 1024
             lo == 56320 + ((c - 65536) % 1024)
         IN  <<hi % 256, hi \div 256, lo % 256, lo \div 256>>

RECURSIVE EncodeUtf16le(_)
EncodeUtf16le(s) ==
    IF s = <<>> THEN [ok |-> TRUE, b |-> <<>>]
    ELSE IF IsSurrogate(Head(s)) THEN Raise("UnicodeEncodeError")
    ELSE LET rest == EncodeUtf16le(Tail(s))
         IN  IF rest.ok THEN [ok |-> TRUE, b |-> Utf16Units(Head(s)) \o rest.b] ELSE rest

Unit(b, i, big) == IF big THEN 256 * b[i] + b[i + 1] ELSE b[i] + 256 * b[i + 1]

RECURSIVE DecodeUnits(_, _)
DecodeUnits(b, big) ==
    IF b = <<>> THEN [ok |-> TRUE, s |-> <<>>]
    ELSE IF Len(b) = 1 THEN Raise("UnicodeDecodeError")
    ELSE LET u == Unit(b, 1, big)
         IN  IF IsLowSurrogate(u) THEN Raise("UnicodeDecodeError")
             ELSE IF IsHighSurrogate(u)
                  THEN IF Len(b) < 4 THEN Raise("UnicodeDecodeError")
                       ELSE IF ~IsLowSurrogate(Unit(b, 3, big)) THEN Raise("UnicodeDecodeError")
                       ELSE LET rest == DecodeUnits(SubSeq(b, 5, Len(b)), big)
                                c == 65536 + (u - 55296) * 1024 + (Unit(b, 3, big) - 56320)
                            IN  IF rest.ok THEN [ok |-> TRUE, s |-> <<c>> \o rest.s] ELSE rest
             ELSE LET rest == DecodeUnits(SubSeq(b, 3, Len(b)), big)
                  IN  IF rest.ok THEN [ok |-> TRUE, s |-> <<u>> \o rest.s] ELSE rest

DecodeUtf16(b) ==
    IF Len(b) >= 2 /\ b[1] = 255 /\ b[2] = 254 THEN DecodeUnits(SubSeq(b, 3, Len(b)), FALSE)
    ELSE IF Len(b) >= 2 /\ b[1] = 254 /\ b[2] = 255 THEN DecodeUnits(SubSeq(b, 3, Len(b)), TRUE)
    ELSE DecodeUnits(b, FALSE)

(***************************************************************************)
(* datetime and timedelta arithmetic on <<days, seconds, microseconds>>.   *)
(***************************************************************************)
TimeDelta(d, s, us) ==
    LET s2 == s + us \div 1000000
    IN  <<d + s2 \div 86400, s2 % 86400, us % 1000000>>

\* round(n / 10) as timedelta rounds a float of microseconds: to nearest, ties to even
RoundTenth(n) ==
    LET q == n \div 10
        r == n % 10
    IN  IF r < 5 THEN q ELSE IF r > 5 THEN q + 1 ELSE IF q % 2 = 0 THEN q ELSE q + 1

\* the tick counts the model converts to a date: those of 32 signed bits
TicksInModel(v) == FitsSigned(v, 4)

convertToLocalDate(val) ==
    LET timestamp == Int32(val)
        us == RoundTenth(timestamp)
    IN  [k |-> "datetime", v |-> TimeDelta(0, 0 - timezone, us)]

convertToLynxDate(val) ==
    IF val.k # "datetime" THEN Raise("TypeError")
    ELSE LET res == TimeDelta(val.v[1], val.v[2] + timezone, val.v[3])
             res2 == IF 1 = daylight THEN TimeDelta(res[1], res[2] - 3600, res[3]) ELSE res
         IN  [ok |-> TRUE, n |-> res2[3] * 10]

(***************************************************************************)
(* TypeCode: the wire tags, by name.  NoTypeCode is objTypeCode=None.      *)
(* A tag's wire value is its place in TypeCodes, counted from 0; a tag     *)
(* byte that is no place of it is the tag "Unregistered".                  *)
(***************************************************************************)
TypeCodes ==
    <<"Unknown", "Null", "Bool", "Byte", "Ubyte", "Short", "Ushort", "Int", "Uint",
      "Long", "Ulong", "Float", "Double", "String", "DateTime", "PhaData">>

NoTypeCode == "None"

TypeCodeValue(t) == (CHOOSE i \in 1..Len(TypeCodes) : TypeCodes[i] = t) - 1

TypeCodeOfByte(b) == IF b + 1 <= Len(TypeCodes) THEN TypeCodes[b + 1] ELSE "Unregistered"

(***************************************************************************)
(* MetaData: the 5-byte header, [1 byte tag][4 bytes unsigned size].       *)
(***************************************************************************)
MetaDataSerialize(type, size) == <<TypeCodeValue(type)>> \o LE(size, 4)

MetaDataDeserialize(s) ==
    IF Len(s) < 5 THEN Raise("struct.error")
    ELSE [ok |-> TRUE, type |-> TypeCodeOfByte(s[1]), size |-> Uint32(SubSeq(s, 2, 5)),
          stream |-> SliceFrom(s, 5)]

(***************************************************************************)
(* SpectralData, the base record of PhaData: status flags, a channel       *)
(* count and that many channel counts, 4 bytes each.                       *)
(***************************************************************************)
RECURSIVE Channels(_)
Channels(c) == IF c = <<>> THEN <<>> ELSE LE(Head(c), 4) \o Channels(Tail(c))

SpectralGetDataSize(rec) == 4 + 4 + 4 * Len(rec.channels)

SpectralSerializeData(rec) == LE(rec.status, 4) \o LE(Len(rec.channels), 4) \o Channels(rec.channels)

RECURSIVE ReadChannels(_, _)
ReadChannels(s, n) ==
    IF n = 0 THEN [ok |-> TRUE, c |-> <<>>, stream |-> s]
    ELSE IF Len(s) < 4 THEN Raise("struct.error")
    ELSE LET rest == ReadChannels(SliceFrom(s, 4), n - 1)
         IN  IF rest.ok
             THEN [ok |-> TRUE, c |-> <<Uint32(SubSeq(s, 1, 4))>> \o rest.c, stream |-> rest.stream]
             ELSE rest

SpectralDeserializeData(rec, s) ==
    IF Len(s) < 4 THEN [ok |-> FALSE, err |-> "struct.error", rec |-> rec]
    ELSE LET rec1 == [rec EXCEPT !.status = Uint32(SubSeq(s, 1, 4))]
         IN  IF Len(s) < 8 THEN [ok |-> FALSE, err |-> "struct.error", rec |-> rec1]
             ELSE LET c == ReadChannels(SliceFrom(s, 8), Uint32(SubSeq(s, 5, 8)))
                  IN  IF c.ok
                      THEN [ok |-> TRUE, rec |-> [rec1 EXCEPT !.channels = c.c], stream |-> c.stream]
                      ELSE [ok |-> FALSE, err |-> c.err, rec |-> rec1]

(***************************************************************************)
(* ApplicationSerializer.getTypeCode and getTypeSize.                      *)
(***************************************************************************)
PhaGetDataSize(rec) == SpectralGetDataSize(rec) + 3 * 8

getTypeCode(obj) ==
    IF obj.k = "none" THEN [ok |-> TRUE, t |-> "Null"]
    ELSE IF obj.k = "bool" THEN [ok |-> TRUE, t |-> "Bool"]
    ELSE IF obj.k = "int" THEN [ok |-> TRUE, t |-> "Uint"]
    ELSE IF obj.k = "float" THEN [ok |-> TRUE, t |-> "Double"]
    ELSE IF obj.k = "str" THEN [ok |-> TRUE, t |-> "String"]
    ELSE IF obj.k = "datetime" THEN [ok |-> TRUE, t |-> "DateTime"]
    ELSE IF obj.k = "pha" THEN [ok |-> TRUE, t |-> "PhaData"]
    ELSE Raise("SerializationException")

\* getTypeSize with len(obj) for a string: its code points, not its encoded bytes
getTypeSizeOfCodePoints(obj) ==
    IF obj.k = "none" THEN [ok |-> TRUE, n |-> 0]
    ELSE IF obj.k = "bool" THEN [ok |-> TRUE, n |-> 1]
    ELSE IF obj.k = "int" THEN [ok |-> TRUE, n |-> 4]
    ELSE IF obj.k = "float" THEN [ok |-> TRUE, n |-> 8]
    ELSE IF obj.k = "str" THEN [ok |-> TRUE, n |-> Len(obj.v)]
    ELSE IF obj.k = "datetime" THEN [ok |-> TRUE, n |-> 8]
    ELSE IF obj.k = "pha" THEN [ok |-> TRUE, n |-> PhaGetDataSize(obj.v)]
    ELSE Raise("SerializationException")

getTypeSize(obj) ==
    IF obj.k = "none" THEN [ok |-> TRUE, n |-> 0]
    ELSE IF obj.k = "bool" THEN [ok |-> TRUE, n |-> 1]
    ELSE IF obj.k = "int" THEN [ok |-> TRUE, n |-> 4]
    ELSE IF obj.k = "float" THEN [ok |-> TRUE, n |-> 8]
    ELSE IF obj.k = "str"
         THEN LET e == EncodeUtf16le(obj.v)
              IN  IF e.ok THEN [ok |-> TRUE, n |-> Len(e.b)] ELSE e
    ELSE IF obj.k = "datetime" THEN [ok |-> TRUE, n |-> 8]
    ELSE IF obj.k = "pha" THEN [ok |-> TRUE, n |-> PhaGetDataSize(obj.v)]
    ELSE Raise("SerializationException")

(***************************************************************************)
(* struct.pack and struct.unpack.                                          *)
(***************************************************************************)
PackInt(obj, w, signed) ==
    IF obj.k \notin {"int", "bool"} THEN Raise("struct.error")
    ELSE LET v == AsWide(obj)
         IN  IF (signed /\ FitsSigned(v, w)) \/ (~signed /\ FitsUnsigned(v, w))
             THEN [ok |-> TRUE, b |-> SubSeq(v, 1, w)]
             ELSE Raise("struct.error")

\* "<f" and "<d"; serialize never passes them an int (its int branch comes first)
PackFloat(obj, w) ==
    IF obj.k # "float" THEN Raise("struct.error")
    ELSE IF w = 8 THEN [ok |-> TRUE, b |-> obj.v]
    ELSE DoubleToSingle(obj.v)

UnpackInt(b, w, signed) ==
    IF Len(b) # w THEN Raise("struct.error")
    ELSE [ok |-> TRUE, data |-> [k |-> "int", v |-> IF signed THEN SignExtend(b) ELSE ZeroExtend(b)]]

UnpackFloat(b, w) ==
    IF Len(b) # w THEN Raise("struct.error")
    ELSE [ok |-> TRUE, data |-> PyFloat(IF w = 8 THEN b ELSE SingleToDouble(b))]

(***************************************************************************)
(* stream += data.  StrEmpty is the str '' that is serialize's default     *)
(* stream: it is no bytes object, and str + bytes raises TypeError.        *)
(***************************************************************************)
StrEmpty == <<0 - 1>>

Concat(s, data) ==
    IF s = StrEmpty /\ data = StrEmpty THEN [ok |-> TRUE, stream |-> StrEmpty]
    ELSE IF s = StrEmpty \/ data = StrEmpty THEN Raise("TypeError")
    ELSE [ok |-> TRUE, stream |-> s \o data]

(***************************************************************************)
(* ApplicationSerializer.serialize and PhaData.serializeData.              *)
(***************************************************************************)
RECURSIVE serialize(_, _, _, _)

\* stream += f, where f is what a call returned or raised
AddResult(s, f) == IF f.ok THEN Concat(s, f.stream) ELSE f

\* stream += ApplicationSerializer.serialize(field, objTypeCode=TypeCode.Long)
AddLong(acc, field) ==
    IF acc.ok THEN AddResult(acc.stream, serialize(field, StrEmpty, FALSE, "Long")) ELSE acc

AddBase(acc, rec) == IF acc.ok THEN Concat(acc.stream, SpectralSerializeData(rec)) ELSE acc

PhaSerializeData(rec, s) ==
    AddBase(AddLong(AddLong(AddLong([ok |-> TRUE, stream |-> s], rec.liveTime),
                            rec.realTime),
                    rec.compValue),
            rec)

\* the string branch with the length prefix written whether or not a header was
StringPayloadAlwaysPrefixed(obj, writeMeta) ==
    IF obj.k # "str" THEN Raise("AttributeError")
    ELSE LET e == EncodeUtf16le(obj.v)
         IN  IF ~e.ok THEN e ELSE [ok |-> TRUE, b |-> LE(Len(e.b), 4) \o e.b]

\* the string branch: the length prefix only when no header was written
StringPayload(obj, writeMeta) ==
    IF obj.k # "str" THEN Raise("AttributeError")
    ELSE LET e == EncodeUtf16le(obj.v)
         IN  IF ~e.ok THEN e
             ELSE IF writeMeta = FALSE THEN [ok |-> TRUE, b |-> LE(Len(e.b), 4) \o e.b]
             ELSE [ok |-> TRUE, b |-> e.b]

DatePayload(obj) ==
    LET t == convertToLynxDate(obj)
    IN  IF t.ok THEN PackInt(PyInt(t.n), 8, TRUE) ELSE t

\* SerializableObject.serialize of a PhaData: its fields, on an empty buffer
ObjectPayload(r) == IF r.ok THEN [ok |-> TRUE, b |-> r.stream] ELSE r

Appended(p) == IF p.ok THEN [ok |-> TRUE, app |-> TRUE, b |-> p.b] ELSE p

\* the bytes the dispatch of serialize appends for obj; app is FALSE where it appends nothing
Payload(obj, writeMeta, objTypeCode) ==
    IF obj.k = "none" THEN [ok |-> TRUE, app |-> FALSE, b |-> <<>>]
    ELSE Appended(
                 IF obj.k = "bool" \/ objTypeCode = "Bool"
                 THEN [ok |-> TRUE, b |-> IF obj.k = "bool" /\ obj.v THEN <<1>> ELSE <<0>>]
                 ELSE IF objTypeCode = "Byte" THEN PackInt(obj, 1, TRUE)
                 ELSE IF objTypeCode = "Ubyte" THEN PackInt(obj, 1, FALSE)
                 ELSE IF objTypeCode = "Short" \/ objTypeCode = "Ushort" THEN PackInt(obj, 2, TRUE)
                 ELSE IF obj.k = "int" \/ objTypeCode = "Int" \/ objTypeCode = "Uint"
                      THEN PackInt(obj, 4, TRUE)
                 ELSE IF obj.k = "int" \/ objTypeCode = "Long" \/ objTypeCode = "Ulong"
                      THEN PackInt(obj, 8, TRUE)
                 ELSE IF objTypeCode = "Float" THEN PackFloat(obj, 4)
                 ELSE IF obj.k = "float" \/ objTypeCode = "Double" THEN PackFloat(obj, 8)
                 ELSE IF obj.k = "str" \/ objTypeCode = "String" THEN StringPayload(obj, writeMeta)
                 ELSE IF obj.k = "datetime" \/ objTypeCode = "DateTime" THEN DatePayload(obj)
                 ELSE IF obj.k = "pha" THEN ObjectPayload(PhaSerializeData(obj.v, <<>>))
                 ELSE Raise("SerializationException"))

\* the header step of serialize
WriteMeta(obj, s) ==
    LET t == getTypeCode(obj)
        n == getTypeSize(obj)
    IN  IF ~t.ok THEN t ELSE IF ~n.ok THEN n ELSE Concat(s, MetaDataSerialize(t.t, n.n))

\* the stream after the header step m and the dispatch p
AddPayload(m, p) ==
    IF ~m.ok THEN m
    ELSE IF ~p.ok THEN p
    ELSE IF ~p.app THEN m
    ELSE Concat(m.stream, p.b)

serialize(obj, s, writeMeta, objTypeCode) ==
    AddPayload(IF writeMeta THEN WriteMeta(obj, s) ELSE [ok |-> TRUE, stream |-> s],
               Payload(obj, writeMeta, objTypeCode))

(***************************************************************************)
(* ApplicationSerializer.deserialize and PhaData.deserializeData.  A       *)
(* result is [ok, data, stream]; a raise of deserializeData carries the    *)
(* record as the call left it.                                             *)
(***************************************************************************)
RECURSIVE deserialize(_, _, _)

\* [self.field, stream] = f, where f is what a call returned or raised
Assign(acc, field, f) ==
    IF f.ok THEN [ok |-> TRUE, rec |-> [acc.rec EXCEPT ![field] = f.data], stream |-> f.stream]
    ELSE [ok |-> FALSE, err |-> f.err, rec |-> acc.rec]

\* [self.field, stream] = ApplicationSerializer.deserialize(stream, TypeCode.Long)
ReadLong(acc, field) ==
    IF acc.ok THEN Assign(acc, field, deserialize(acc.stream, "Long", 0)) ELSE acc

ReadBase(acc) == IF acc.ok THEN SpectralDeserializeData(acc.rec, acc.stream) ELSE acc

PhaDeserializeData(rec, s) ==
    ReadBase(ReadLong(ReadLong(ReadLong([ok |-> TRUE, rec |-> rec, stream |-> s], "liveTime"),
                               "realTime"),
                      "compValue"))

\* a decoded value and the stream after n bytes
Taken(r, s, n) == IF r.ok THEN [ok |-> TRUE, data |-> r.data, stream |-> SliceFrom(s, n)] ELSE r

StringDecode(s, size) ==
    LET prefix == UnpackInt(Slice(s, 0, 4), 4, TRUE)
        length == IF size > 0 THEN size ELSE Int32(prefix.data.v)
        body == IF size > 0 THEN s ELSE SliceFrom(s, 4)
        text == DecodeUtf16(Slice(body, 0, length))
    IN  IF size <= 0 /\ ~prefix.ok THEN prefix
        ELSE IF ~text.ok THEN text
        ELSE [ok |-> TRUE, data |-> PyStr(text.s), stream |-> SliceFrom(body, length)]

DateDecode(s) ==
    LET ft == UnpackInt(Slice(s, 0, 8), 8, TRUE)
    IN  IF ~ft.ok THEN ft
        ELSE IF ~TicksInModel(ft.data.v) THEN Raise("OutOfModel")
        ELSE [ok |-> TRUE, data |-> convertToLocalDate(ft.data.v), stream |-> SliceFrom(s, 8)]

\* a fresh PhaData()
NewPha == [liveTime |-> PyInt(0), realTime |-> PyInt(0), compValue |-> PyInt(0),
           status |-> 0, channels |-> <<>>]

\* data = PhaData(); stream = data.deserialize(stream)
Constructed(r) ==
    IF r.ok THEN [ok |-> TRUE, data |-> [k |-> "pha", v |-> r.rec], stream |-> r.stream]
    ELSE Raise(r.err)

\* the last branch with the tag passed over: no value, the buffer handed back whole
NoDispatchSilent(s, type) == [ok |-> TRUE, data |-> PyNone, stream |-> s]

\* the last branch: a tag no branch before it took
NoDispatch(s, type) == Raise("SerializationException")

deserialize(s, type, size) ==
    IF type = "Int" THEN Taken(UnpackInt(Slice(s, 0, 4), 4, TRUE), s, 4)
    ELSE IF type = "Uint" THEN Taken(UnpackInt(Slice(s, 0, 4), 4, FALSE), s, 4)
    ELSE IF type = "Long" THEN Taken(UnpackInt(Slice(s, 0, 8), 8, TRUE), s, 8)
    ELSE IF type = "Ulong" THEN Taken(UnpackInt(Slice(s, 0, 8), 8, FALSE), s, 8)
    ELSE IF type = "Short" THEN Taken(UnpackInt(Slice(s, 0, 2), 2, TRUE), s, 2)
    ELSE IF type = "Ushort" THEN Taken(UnpackInt(Slice(s, 0, 2), 2, FALSE), s, 2)
    ELSE IF type = "Byte" THEN Taken(UnpackInt(Slice(s, 0, 1), 1, TRUE), s, 1)
    ELSE IF type = "Ubyte" THEN Taken(UnpackInt(Slice(s, 0, 1), 1, FALSE), s, 1)
    ELSE IF type = "Float" THEN Taken(UnpackFloat(Slice(s, 0, 4), 4), s, 4)
    ELSE IF type = "Double" THEN Taken(UnpackFloat(Slice(s, 0, 8), 8), s, 8)
    ELSE IF type = "Bool"
         THEN LET r == UnpackInt(Slice(s, 0, 1), 1, FALSE)
              IN  IF ~r.ok THEN r
                  ELSE [ok |-> TRUE, data |-> PyBool(r.data.v[1] # 0), stream |-> SliceFrom(s, 1)]
    ELSE IF type = "Null" THEN [ok |-> TRUE, data |-> PyNone, stream |-> s]
    ELSE IF type = "String" THEN StringDecode(s, size)
    ELSE IF type = "DateTime" THEN DateDecode(s)
    ELSE IF type = "PhaData" THEN Constructed(PhaDeserializeData(NewPha, s))
    ELSE IF type = "Unknown"
         THEN LET metaData == MetaDataDeserialize(s)
              IN  IF ~metaData.ok THEN metaData
                  ELSE deserialize(metaData.stream, metaData.type, metaData.size)
    ELSE NoDispatch(s, type)

(***************************************************************************)
(* The values and tags the callers of the model pass.                      *)
(***************************************************************************)
Ints == {PyInt(0 - 1), PyInt(6), PyInt(100), PyInt(40000)}

\* 1.5, 0.1 and 1e300
Floats == {PyFloat(<<0, 0, 0, 0, 0, 0, 248, 63>>),
           PyFloat(<<154, 153, 153, 153, 153, 153, 185, 63>>),
           PyFloat(<<156, 117, 0, 136, 60, 228, 55, 126>>)}

\* "", "AB", U+FEFF "A", U+1F600
Strings == {PyStr(<<>>), PyStr(<<65, 66>>), PyStr(<<65279, 65>>), PyStr(<<128512>>)}

Dates == {PyDate(0, 0, 5), PyDate(154000, 3600, 250000)}

Objects ==
    {PyNone, PyBool(TRUE), PyBool(FALSE), PyOther, [k |-> "pha", v |-> NewPha]}
        \cup Ints \cup Floats \cup Strings \cup Dates

IntTags == {"Byte", "Ubyte", "Short", "Ushort", "Int", "Uint", "Long", "Ulong"}

\* the explicit tags a caller passes with a value: those of the value's own type
TagsFor(obj) ==
    IF obj.k = "int" THEN IntTags
    ELSE IF obj.k = "float" THEN {"Float", "Double"}
    ELSE IF obj.k = "bool" THEN {"Bool"}
    ELSE IF obj.k = "none" THEN {"Null"}
    ELSE IF obj.k = "str" THEN {"String"}
    ELSE IF obj.k = "datetime" THEN {"DateTime"}
    ELSE {}

DecodeTags == {TypeCodes[i] : i \in 1..Len(TypeCodes)}

\* the size arguments a caller passes to deserialize with tag String
Sizes == {0, 2, 6}

Timezones == {0, 0 - 3600}

NoCall == [op |-> "", err |-> ""]

Init ==
    /\ timezone \in Timezones
    /\ daylight \in {0, 1}
    /\ stream = <<>>
    /\ written = <<>>
    /\ decoded = <<>>
    /\ raised = NoCall
    /\ pha = NewPha
    /\ phaOut = NoCall
    /\ phaIn = NoCall
    /\ AppIdle

(***************************************************************************)
(* One call of serialize on the caller's buffer.  A call that raises       *)
(* leaves the caller's buffer as it was.                                   *)
(***************************************************************************)
SerializeCall(obj, writeMeta, objTypeCode) ==
    LET r == serialize(obj, stream, writeMeta, objTypeCode)
    IN  /\ raised = NoCall
        /\ decoded = <<>>
        /\ IF r.ok
           THEN /\ stream' = r.stream
                /\ written' = Append(written, [obj |-> obj, meta |-> writeMeta,
                                               tag |-> objTypeCode,
                                               n |-> Len(r.stream) - Len(stream)])
                /\ raised' = raised
           ELSE /\ raised' = [op |-> "serialize", err |-> r.err, obj |-> obj,
                              meta |-> writeMeta, tag |-> objTypeCode]
                /\ UNCHANGED <<stream, written>>
        /\ UNCHANGED <<timezone, daylight, decoded, pha, phaOut, phaIn>>
        /\ UNCHANGED appVars

\* the header a decode with tag Unknown reads first
HeaderOf(s, type) ==
    IF type = "Unknown" /\ MetaDataDeserialize(s).ok
    THEN [type |-> MetaDataDeserialize(s).type, size |-> MetaDataDeserialize(s).size]
    ELSE [type |-> "", size |-> 0]

(***************************************************************************)
(* One call of deserialize on the caller's buffer; the caller keeps the    *)
(* returned remainder.  A call that raises returns nothing.                *)
(***************************************************************************)
DeserializeCall(type, size) ==
    LET r == deserialize(stream, type, size)
    IN  /\ raised = NoCall
        /\ IF r.ok THEN TRUE ELSE r.err # "OutOfModel"
        /\ IF r.ok
           THEN /\ stream' = r.stream
                /\ decoded' = Append(decoded, [type |-> type, size |-> size, data |-> r.data,
                                               from |-> stream,
                                               n |-> Len(stream) - Len(r.stream),
                                               header |-> HeaderOf(stream, type)])
                /\ raised' = raised
           ELSE /\ raised' = [op |-> "deserialize", err |-> r.err, type |-> type,
                              size |-> size, from |-> stream]
                /\ UNCHANGED <<stream, decoded>>
        /\ UNCHANGED <<timezone, daylight, written, pha, phaOut, phaIn>>
        /\ UNCHANGED appVars

\* serialize(obj, stream, writeMeta) or serialize(obj, stream, writeMeta, objTypeCode)
Serialize ==
    /\ written = <<>>
    /\ \E obj \in Objects, writeMeta \in BOOLEAN :
           \E objTypeCode \in {NoTypeCode} \cup TagsFor(obj) :
               SerializeCall(obj, writeMeta, objTypeCode)

\* deserialize(stream, type) or, for a string, deserialize(stream, type, size)
Deserialize ==
    /\ decoded = <<>>
    /\ \E type \in DecodeTags :
           \E size \in (IF type = "String" THEN Sizes ELSE {0}) :
               DeserializeCall(type, size)

Next == Serialize \/ Deserialize

Spec == Init /\ [][Next]_vars

(***************************************************************************)
(* A record written field by field and read back: successive serialize     *)
(* calls with explicit tags and no headers, then successive deserialize    *)
(* calls with the same tags in the same order, each on the remainder the   *)
(* previous one returned.                                                  *)
(***************************************************************************)
MaxFields == 3

MaxReads == 2

MaxDates == 2

MaxWorkers == 2

ChainObjects ==
    {PyNone, PyBool(TRUE), PyInt(0 - 1), PyInt(100), PyStr(<<65, 66>>),
     PyFloat(<<0, 0, 0, 0, 0, 0, 248, 63>>), PyDate(0, 0, 5)}

ChainWrite ==
    /\ Len(written) < MaxFields
    /\ \E obj \in ChainObjects :
           \E objTypeCode \in TagsFor(obj) : SerializeCall(obj, FALSE, objTypeCode)

ChainRead ==
    /\ Len(decoded) < Len(written)
    /\ DeserializeCall(written[Len(decoded) + 1].tag, 0)

NextChain == ChainWrite \/ ChainRead

SpecChain == Init /\ [][NextChain]_vars

(***************************************************************************)
(* A PhaData instance: deserializeData fills it from a buffer the          *)
(* transport received, serializeData appends it to the caller's buffer.    *)
(***************************************************************************)
PhaWire(a, b, c, status, channels) ==
    LE(a, 8) \o LE(b, 8) \o LE(c, 8) \o LE(status, 4) \o LE(Len(channels), 4) \o Channels(channels)

\* the bytes the transport cuts off the end of a record
PhaCuts == {0, 4, 12, 20}

PhaBuffers ==
    {Slice(PhaWire(a, b, c, st[1], st[2]) \o extra, 0, Len(PhaWire(a, b, c, st[1], st[2]) \o extra) - cut) :
        a \in {100, 0 - 1}, b \in {200, 7}, c \in {0, 5},
        st \in {<<0, <<>> >>, <<1, <<5, 9>> >>}, extra \in {<<>>, <<9>>}, cut \in PhaCuts}

\* data = PhaData(); data.deserializeData(buffer): an instance is filled once
PhaDeserialize ==
    \E buffer \in PhaBuffers :
        LET r == PhaDeserializeData(pha, buffer)
        IN  /\ phaIn.op = ""
            /\ pha' = r.rec
            /\ phaIn' = [op |-> "deserializeData", err |-> IF r.ok THEN "" ELSE r.err,
                         from |-> buffer, stream |-> IF r.ok THEN r.stream ELSE <<>>,
                         before |-> pha]
            /\ UNCHANGED <<timezone, daylight, stream, written, decoded, raised, phaOut>>
            /\ UNCHANGED appVars

PhaSerialize ==
    \E s \in {<<>>, <<7>>} :
        LET r == PhaSerializeData(pha, s)
        IN  /\ phaOut.op = ""
            /\ phaOut' = [op |-> "serializeData", err |-> IF r.ok THEN "" ELSE r.err,
                          to |-> s, stream |-> IF r.ok THEN r.stream ELSE <<>>, rec |-> pha]
            /\ UNCHANGED <<timezone, daylight, stream, written, decoded, raised, pha, phaIn>>
            /\ UNCHANGED appVars

InitPha ==
    /\ timezone = 0
    /\ daylight = 0
    /\ stream = <<>>
    /\ written = <<>>
    /\ decoded = <<>>
    /\ raised = NoCall
    /\ pha = NewPha
    /\ phaOut = NoCall
    /\ phaIn = NoCall
    /\ AppIdle

NextPha == PhaDeserialize \/ PhaSerialize

SpecPha == InitPha /\ [][NextPha]_vars

(***************************************************************************)
(* deserialize on a buffer the transport received, with a tag of the       *)
(* registry or one that is not in it.                                      *)
(***************************************************************************)
TagBuffers ==
    {<<>>, <<200>>, <<200, 0, 0, 0, 0>>, <<200, 4, 0, 0, 0, 1, 2, 3, 4>>, <<16, 0, 0, 0, 0>>,
     <<0, 0, 0, 0, 0, 99, 0, 0, 0, 0>>, <<7, 4, 0, 0, 0, 5, 0, 0, 0>>, <<1, 0, 0, 0, 0>>,
     <<2, 1, 0, 0, 0, 1, 200>>}

InitTag ==
    /\ timezone \in Timezones
    /\ daylight \in {0, 1}
    /\ stream \in TagBuffers
    /\ written = <<>>
    /\ decoded = <<>>
    /\ raised = NoCall
    /\ pha = NewPha
    /\ phaOut = NoCall
    /\ phaIn = NoCall
    /\ AppIdle

\* deserialize(stream, type), and deserialize(stream) for tag Unknown, on what is left
DeserializeTag ==
    /\ Len(decoded) < MaxReads
    /\ \E type \in DecodeTags \cup {"Unregistered"} : DeserializeCall(type, 0)

NextTag == DeserializeTag

SpecTag == InitTag /\ [][NextTag]_vars

(***************************************************************************)
(* Timestamps written one after the other with serialize, which packs      *)
(* convertToLynxDate of each, and read back with tag DateTime, which       *)
(* returns convertToLocalDate of the ticks read.                           *)
(***************************************************************************)
DateInputs ==
    {PyDate(0, 0, 5), PyDate(0, 1, 0), PyDate(0, 2, 0),
     PyDate(154000, 3600, 250000), PyDate(154000, 3601, 250000)}

DateWrite ==
    /\ Len(written) < MaxDates
    /\ \E obj \in DateInputs : SerializeCall(obj, FALSE, "DateTime")

NextDate == DateWrite \/ ChainRead

SpecDate == Init /\ [][NextDate]_vars

(***************************************************************************)
(* LynxNoveauMainWindow and its AsyncConnect workers.  The operator        *)
(* triggers the enabled actions and accepts the configuration dialog; a    *)
(* worker runs in its own thread, statement by statement, and its signals  *)
(* reach the main thread through the event queue, in the order emitted;    *)
(* the poll timer calls _handle_acq while it is active.                    *)
(***************************************************************************)
InitApp ==
    /\ timezone = 0
    /\ daylight = 0
    /\ stream = <<>>
    /\ written = <<>>
    /\ decoded = <<>>
    /\ raised = NoCall
    /\ pha = NewPha
    /\ phaOut = NoCall
    /\ phaIn = NoCall
    /\ acq_running = FALSE
    /\ config \in {"dict", "None"}
    /\ actionStart = (config # "None")
    /\ actionStop = FALSE
    /\ acq_timer = FALSE
    /\ workers = <<>>
    /\ signals = <<>>

acq_set_ready == actionStart' = TRUE /\ actionStop' = FALSE

acq_set_running == actionStart' = FALSE /\ actionStop' = TRUE

\* lynx_window._acq_running = True
RunFlag(i) ==
    /\ workers[i] = "started"
    /\ workers' = [workers EXCEPT ![i] = "flagged"]
    /\ acq_running' = TRUE
    /\ UNCHANGED <<actionStart, actionStop, acq_timer, config, signals>>
    /\ UNCHANGED codecVars

\* lynx_window.acq_set_running()
RunButtons(i) ==
    /\ workers[i] = "flagged"
    /\ workers' = [workers EXCEPT ![i] = "connecting"]
    /\ acq_set_running
    /\ UNCHANGED <<acq_running, acq_timer, config, signals>>
    /\ UNCHANGED codecVars

\* the rest of run: the device calls return and finishedOk is emitted, or one raises (as
\* the subscript of a configuration that is None does) and exception is emitted
RunConnect(i) ==
    /\ workers[i] = "connecting"
    /\ workers' = [workers EXCEPT ![i] = "finished"]
    /\ \E ok \in (IF config = "None" THEN {FALSE} ELSE BOOLEAN) :
           signals' = Append(signals, IF ok THEN "finishedOk" ELSE "exception")
    /\ UNCHANGED <<acq_running, actionStart, actionStop, acq_timer, config>>
    /\ UNCHANGED codecVars

AsyncConnectRun == \E i \in 1..Len(workers) : RunFlag(i) \/ RunButtons(i) \/ RunConnect(i)

\* actionStart.triggered: a worker is started unless an acquisition is running
start_acq ==
    /\ actionStart
    /\ IF ~acq_running
       THEN /\ Len(workers) < MaxWorkers
            /\ workers' = Append(workers, "started")
            /\ UNCHANGED <<acq_running, actionStart, actionStop, acq_timer, config, signals>>
       ELSE UNCHANGED appVars
    /\ UNCHANGED codecVars

\* the body of _stop_acq
StopIfRunning ==
    IF acq_running
    THEN /\ acq_timer' = FALSE
         /\ acq_running' = FALSE
         /\ acq_set_ready
         /\ UNCHANGED <<config, workers, signals>>
    ELSE UNCHANGED appVars

\* actionStop.triggered
stop_acq == actionStop /\ StopIfRunning /\ UNCHANGED codecVars

\* buttonBox.accepted: change_config, which leaves what json.dump returned as the
\* configuration, and then acq_set_ready
ConfigAccepted ==
    /\ config' = "None"
    /\ acq_set_ready
    /\ UNCHANGED <<acq_running, acq_timer, workers, signals>>
    /\ UNCHANGED codecVars

\* the main thread takes the oldest queued signal: finishedOk starts the poll timer,
\* exception calls acq_set_ready
SignalDelivered ==
    /\ signals # <<>>
    /\ signals' = Tail(signals)
    /\ IF Head(signals) = "finishedOk"
       THEN acq_timer' = TRUE /\ UNCHANGED <<actionStart, actionStop>>
       ELSE acq_set_ready /\ UNCHANGED acq_timer
    /\ UNCHANGED <<acq_running, config, workers>>
    /\ UNCHANGED codecVars

\* _acq_timer.timeout: the subscript of a configuration that is None raises; else the
\* device is busy or waiting, or it is idle and _stop_acq is called
handle_acq ==
    /\ acq_timer
    /\ IF config = "None" THEN UNCHANGED appVars
       ELSE \E idle \in BOOLEAN : IF idle THEN StopIfRunning ELSE UNCHANGED appVars
    /\ UNCHANGED codecVars

NextApp == start_acq \/ stop_acq \/ ConfigAccepted \/ AsyncConnectRun \/ SignalDelivered \/ handle_acq

SpecApp == InitApp /\ [][NextApp]_vars

(***************************************************************************)
(* Properties.                                                             *)
(***************************************************************************)
PyEq(a, b) == a.k = b.k /\ a.v = b.v

IsPrimitive(obj) == obj.k \in {"none", "bool", "int", "float", "str", "datetime"}

\* the one serialize call of the state returned: it passed no tag, and a header or none
WroteOne(writeMeta) ==
    /\ Len(written) = 1
    /\ written[1].tag = NoTypeCode
    /\ written[1].meta = writeMeta
    /\ IsPrimitive(written[1].obj)

\* the state's deserialize call, returned or raised, was made with this tag and no size
ReadWith(type) ==
    \/ Len(decoded) = 1 /\ decoded[1].type = type /\ decoded[1].size = 0
    \/ raised.op = "deserialize" /\ raised.type = type /\ raised.size = 0

\* C1: a primitive value written with no header and no tag and read back with the tag
\* getTypeCode gives for it comes back equal, and nothing is left in the buffer.
C1_PrimitiveRoundTrip ==
    (WroteOne(FALSE) /\ ReadWith(getTypeCode(written[1].obj).t))
        => /\ Len(decoded) = 1
           /\ PyEq(decoded[1].data, written[1].obj)
           /\ stream = <<>>

\* C2: a primitive value written with a header and read back with tag Unknown comes back
\* equal, the header read carries getTypeCode and getTypeSize of the value, and nothing
\* is left in the buffer.
C2_HeaderRoundTrip ==
    (WroteOne(TRUE) /\ ReadWith("Unknown"))
        => /\ Len(decoded) = 1
           /\ decoded[1].header.type = getTypeCode(written[1].obj).t
           /\ decoded[1].header.size = getTypeSize(written[1].obj).n
           /\ PyEq(decoded[1].data, written[1].obj)
           /\ stream = <<>>

\* C3: getTypeSize of a primitive value is the number of bytes serialize appends for it
\* when it writes no header.
C3_SizeContract ==
    WroteOne(FALSE) => getTypeSize(written[1].obj).n = written[1].n

\* C3, amended: getTypeSize of a primitive value is the number of bytes serialize appends
\* for it after the 5-byte header when it writes one; when it writes none, it appends
\* that many bytes too, and 4 more (the length prefix) for a string.
C3_SizeContractAmended ==
    /\ WroteOne(TRUE) => written[1].n = 5 + getTypeSize(written[1].obj).n
    /\ WroteOne(FALSE) =>
           written[1].n = getTypeSize(written[1].obj).n
                              + (IF written[1].obj.k = "str" THEN 4 ELSE 0)

C3_Witness ==
    /\ WroteOne(FALSE)
    /\ written[1].obj = PyStr(<<65, 66>>)
    /\ written[1].n = 8
    /\ getTypeSize(written[1].obj).n = 4

\* the wire width the tag stands for
Width(tag) ==
    IF tag \in {"Byte", "Ubyte"} THEN 1
    ELSE IF tag \in {"Short", "Ushort"} THEN 2
    ELSE IF tag \in {"Int", "Uint", "Float"} THEN 4
    ELSE 8

\* C4: a serialize call with an explicit tag appends the width of the tag: 1 byte for
\* Byte and Ubyte, 2 for Short and Ushort, 4 for Int and Uint, 8 for Long and Ulong with
\* an integer; 4 for Float and 8 for Double with a floating-point value.
C4_TagSelectsWidth ==
    \A i \in 1..Len(written) :
        (/\ ~written[i].meta
         /\ \/ written[i].obj.k = "int" /\ written[i].tag \in IntTags
            \/ written[i].obj.k = "float" /\ written[i].tag \in {"Float", "Double"})
            => written[i].n = Width(written[i].tag)

PrimitiveTags == {TypeCodes[i] : i \in 2..15}

\* the bytes a decode with the tag needs: the fixed width, or for a string the supplied
\* size, or the 4-byte length prefix and the length it declares
Needs(type, size, from) ==
    IF type = "Null" THEN 0
    ELSE IF type \in {"Bool", "Byte", "Ubyte"} THEN 1
    ELSE IF type \in {"Short", "Ushort"} THEN 2
    ELSE IF type \in {"Int", "Uint", "Float"} THEN 4
    ELSE IF type \in {"Long", "Ulong", "Double", "DateTime"} THEN 8
    ELSE IF size > 0 THEN size
    ELSE IF Len(from) < 4 THEN 4
    ELSE 4 + Max(Int32(SubSeq(from, 1, 4)), 0)

\* C5: a deserialize call with a primitive tag returns a value only from a buffer that
\* holds the bytes the decode needs; on a shorter one it raises.
C5_UnderrunRaises ==
    \A i \in 1..Len(decoded) :
        decoded[i].type \in PrimitiveTags
            => Len(decoded[i].from) >= Needs(decoded[i].type, decoded[i].size, decoded[i].from)

\* C6: the size in the header serialize writes for a primitive value is the number of
\* bytes after the header that the decode with tag Unknown consumes.
C6_HeaderSizeIsConsumed ==
    (WroteOne(TRUE) /\ ReadWith("Unknown"))
        => /\ Len(decoded) = 1
           /\ decoded[1].header.size = decoded[1].n - 5

\* the state is the one right after a serialize call of a string, header or none
WroteString == WroteOne(written[1].meta) /\ written[1].obj.k = "str" /\ decoded = <<>>

\* C7: for a string, serialize writes the 4-byte little-endian length before the
\* UTF-16LE code units if and only if it wrote no header: without a header the buffer is
\* [length][code units], with one it is [tag String, size][code units].
C7_StringLengthPolicy ==
    WroteString =>
        LET units == EncodeUtf16le(written[1].obj.v).b
        IN  IF written[1].meta
            THEN /\ MetaDataDeserialize(stream).type = "String"
                 /\ MetaDataDeserialize(stream).size = Len(units)
                 /\ MetaDataDeserialize(stream).stream = units
            ELSE stream = LE(Len(units), 4) \o units

C7_Witness ==
    /\ WroteString
    /\ written[1].obj = PyStr(<<65, 66>>)
    /\ \/ ~written[1].meta /\ stream = <<4, 0, 0, 0, 65, 0, 66, 0>>
       \/ written[1].meta /\ SubSeq(stream, 2, 9) = <<4, 0, 0, 0, 65, 0, 66, 0>>

\* an integer field as PhaData declares it on the wire: 8 bytes, little-endian
Long8(x) == SubSeq(x.v, 1, 8)

\* the bytes serializeData added to the caller's buffer
PhaAppended == SliceFrom(phaOut.stream, Len(phaOut.to))

\* C8: serializeData emits liveTime, realTime and compValue, each as an 8-byte
\* little-endian integer, 24 bytes in all, and only then the bytes of the base record.
C8_PhaFieldOrder ==
    phaOut.op = "serializeData"
        => /\ phaOut.err = ""
           /\ phaOut.stream = phaOut.to \o PhaAppended
           /\ PhaAppended = Long8(phaOut.rec.liveTime) \o Long8(phaOut.rec.realTime)
                                \o Long8(phaOut.rec.compValue)
                                \o SpectralSerializeData(phaOut.rec)

\* C9: getDataSize is the base record's size plus 24, and it is the number of bytes
\* serializeData appends and the number of bytes deserializeData consumes.
C9_PhaEncodedSize ==
    /\ PhaGetDataSize(pha) = SpectralGetDataSize(pha) + 24
    /\ phaOut.op = "serializeData"
           => /\ phaOut.err = ""
              /\ Len(phaOut.stream) - Len(phaOut.to) = PhaGetDataSize(phaOut.rec)
    /\ (phaIn.op = "deserializeData" /\ phaIn.err = "")
           => Len(phaIn.from) - Len(phaIn.stream) = PhaGetDataSize(pha)

\* the value is one the tag can carry
InRange(obj, tag) ==
    IF obj.k # "int" THEN TRUE
    ELSE IF tag \in {"Byte", "Short", "Int", "Long"} THEN FitsSigned(obj.v, Width(tag))
    ELSE FitsUnsigned(obj.v, Width(tag))

\* C10: fields written one after the other with explicit tags and no headers are read
\* back, with the same tags in the same order and each call on the remainder of the one
\* before, as the values written: each call consumes the bytes its serialize call
\* appended, none raises, and after the last one the buffer is empty.
C10_ChainIsLossless ==
    (\A i \in 1..Len(written) : InRange(written[i].obj, written[i].tag))
        => /\ raised.op # "deserialize"
           /\ \A i \in 1..Len(decoded) :
                  /\ PyEq(decoded[i].data, written[i].obj)
                  /\ decoded[i].n = written[i].n
           /\ Len(decoded) = Len(written) => stream = <<>>

\* C11: a deserializeData call that raises part-way leaves the record as it was before
\* the call: liveTime, realTime, compValue and the base fields hold their old values.
C11_AtomicDecodeFailure ==
    (phaIn.op = "deserializeData" /\ phaIn.err # "") => pha = phaIn.before

\* the tag a deserialize call ends up dispatching on: the one passed, or for tag Unknown
\* the one of the header read ("" when the buffer holds no whole header)
RECURSIVE DispatchedTag(_, _)
DispatchedTag(s, type) ==
    IF type # "Unknown" THEN type
    ELSE IF ~MetaDataDeserialize(s).ok THEN ""
    ELSE DispatchedTag(MetaDataDeserialize(s).stream, MetaDataDeserialize(s).type)

\* C12: a deserialize call whose tag, passed or read from a header, is neither a
\* registered tag nor Unknown raises SerializationException and returns nothing: no
\* value and no remainder.
C12_UnknownTagRaises ==
    /\ \A i \in 1..Len(decoded) :
           DispatchedTag(decoded[i].from, decoded[i].type) # "Unregistered"
    /\ (raised.op = "deserialize" /\ DispatchedTag(raised.from, raised.type) = "Unregistered")
           => raised.err = "SerializationException"

C12_Witness ==
    /\ raised.op = "deserialize"
    /\ raised.type = "Unknown"
    /\ raised.from = <<200, 4, 0, 0, 0, 1, 2, 3, 4>>
    /\ raised.err = "SerializationException"
    /\ decoded = <<>>
    /\ stream = raised.from

\* the duration from 1601-01-01T00:00:00 to t, adjusted by the local UTC offset and the
\* daylight-saving hour, as <<days, seconds, microseconds>>
Elapsed(t) == TimeDelta(t.v[1], t.v[2] + timezone - (IF daylight = 1 THEN 3600 ELSE 0), t.v[3])

\* the durations whose tick count the model's integers hold
InTickRange(t) == Elapsed(t)[1] = 0 /\ Elapsed(t)[2] <= 200

\* the 100-nanosecond ticks of the whole duration
WholeTicks(t) == (Elapsed(t)[2] * 1000000 + Elapsed(t)[3]) * 10

\* t moved by a number of seconds
Shifted(t, seconds) == TimeDelta(t.v[1], t.v[2] + seconds, t.v[3])

\* C13 (a): convertToLynxDate of a written timestamp is the tick count of the whole
\* duration since 1601-01-01T00:00:00, adjusted by the local offset.
C13_TicksOfWholeDuration ==
    \A i \in 1..Len(written) :
        InTickRange(written[i].obj)
            => convertToLynxDate(written[i].obj).n = WholeTicks(written[i].obj)

\* C13 (b): two timestamps one second apart give tick counts 10,000,000 apart.
C13_OneSecondApart ==
    \A i, j \in 1..Len(written) :
        written[j].obj.v = Shifted(written[i].obj, 1)
            => convertToLynxDate(written[j].obj).n - convertToLynxDate(written[i].obj).n
                   = 10000000

\* C13 (c): convertToLocalDate of convertToLynxDate of a timestamp is that timestamp, up
\* to the daylight-saving hour.
C13_RecoversTimestamp ==
    \A i \in 1..Len(decoded) :
        \E dst \in {0, 3600, 0 - 3600} : decoded[i].data.v = Shifted(written[i].obj, dst)

\* C13: convertToLynxDate returns the ticks of the whole elapsed duration, so that one
\* second is 10,000,000 ticks and convertToLocalDate recovers the timestamp.
C13_TimestampWireValue ==
    C13_TicksOfWholeDuration /\ C13_OneSecondApart /\ C13_RecoversTimestamp

\* C14: whenever the Start action is enabled, _acq_running is False, so that triggering
\* it starts a connection attempt.
C14_StartIsNeverDead == actionStart => ~acq_running

\* C15: the poll timer is active only while _acq_running is True.
C15_TimerFollowsRunning == acq_timer => acq_running

====
